---------------------------- MODULE Spec2Model ----------------------------
(***************************************************************************)
(* Model of chat_exporter/construct/attachment_handler.py: the attachment  *)
(* re-hosting handlers (local file host, S3/R2 bucket), the S3Manager      *)
(* facade (upload_file_data, delete_files_in_list) and the helpers they    *)
(* use.  Strings are sequences of one-character strings, so that           *)
(* concatenation, endswith, lower, quote_plus, lstrip and removesuffix are *)
(* computed rather than assumed.  The object store, the HTTP fetch and the *)
(* image codec are the environment: their answers are inputs of the        *)
(* actions.                                                                *)
(***************************************************************************)
EXTENDS Integers, Sequences, FiniteSets, TLC

VARIABLES
    bucket,         \* the bucket: object key -> stored object
    client,         \* S3Manager.client / AttachmentToS3Handler.s3_client ("client" or "None")
    calls,          \* client calls issued by the last operation, in order
    hist,           \* one record per completed operation, oldest first
    key_prefix,     \* AttachmentToS3Handler.key_prefix
    skip_config,    \* AttachmentToS3Handler.skip_files_which_are_too_large
    compress_amount,\* the handlers' compress_amount ("None" or a quality)
    uploaded_keys,  \* AttachmentToS3Handler.uploaded_keys
    attachments,    \* the caller's discord.Attachment records: id -> fields
    files,          \* the local file host's directory: file name -> content
    returned,       \* the process_asset calls that returned, in order: the
                    \* key of each and whether its put_object stored it
    _client,        \* AsyncS3ClientManager._client (0: None, n: the client
                    \* that context n yields)
    _context,       \* AsyncS3ClientManager._context (0: None, n: context n)
    contexts,       \* the client contexts create_client has made, in order
    config,         \* the class attributes read from the environment
    pc,             \* the running coroutines: task -> where it is suspended
    messages        \* the messages sent to the handler's discord channel

vars == <<bucket, client, calls, hist, key_prefix, skip_config,
          compress_amount, uploaded_keys, attachments, files, returned,
          _client, _context, contexts, config, pc, messages>>

\* the state of the client singleton, of the coroutines and of the channel
sharedVars == <<_client, _context, contexts, config, pc, messages>>

----------------------------------------------------------------------------
(* Strings *)

UpperChars == <<"A","B","C","D","E","F","G","H","I","J","K","L","M",
                "N","O","P","Q","R","S","T","U","V","W","X","Y","Z">>
LowerChars == <<"a","b","c","d","e","f","g","h","i","j","k","l","m",
                "n","o","p","q","r","s","t","u","v","w","x","y","z">>
Digits == {"0","1","2","3","4","5","6","7","8","9"}

UpperSet == {UpperChars[i] : i \in 1..Len(UpperChars)}
LowerSet == {LowerChars[i] : i \in 1..Len(LowerChars)}

\* str.lower() on one character
LowerChar(c) ==
    IF c \in UpperSet
    THEN LowerChars[CHOOSE i \in 1..Len(UpperChars) : UpperChars[i] = c]
    ELSE c

\* str.lower()
lower(s) == [i \in 1..Len(s) |-> LowerChar(s[i])]

\* str.endswith(suffix)
endswith(s, suffix) ==
    /\ Len(s) >= Len(suffix)
    /\ SubSeq(s, Len(s) - Len(suffix) + 1, Len(s)) = suffix

\* str.removesuffix(suffix): one trailing occurrence is removed
removesuffix(s, suffix) ==
    IF Len(suffix) > 0 /\ endswith(s, suffix)
    THEN SubSeq(s, 1, Len(s) - Len(suffix))
    ELSE s

\* str.lstrip(chars): every leading character that is in chars is removed
RECURSIVE lstrip(_, _)
lstrip(s, chars) ==
    IF s # <<>> /\ Head(s) \in chars THEN lstrip(Tail(s), chars) ELSE s

\* The timestamp characters: str(datetime.utcnow().timestamp()) is a run of
\* digits and one dot; the model writes it as one token per clock reading.
TimestampTokens == <<"t1", "t2", "t3", "t4">>
TimestampSet == {TimestampTokens[i] : i \in 1..Len(TimestampTokens)}

\* urllib.parse.quote_plus on one character: letters, digits and "_.-~" are
\* kept, a space becomes "+", anything else is percent-encoded.
QuoteChar(c) ==
    IF \/ c \in UpperSet \/ c \in LowerSet
       \/ c \in Digits
       \/ c \in {"_", ".", "-", "~"}
       \/ c \in TimestampSet
    THEN <<c>>
    ELSE IF c = " " THEN <<"+">>
    ELSE IF c = "/" THEN <<"%", "2", "F">>
    ELSE IF c = "+" THEN <<"%", "2", "B">>
    ELSE IF c = "%" THEN <<"%", "2", "5">>
    ELSE <<"%", "X", "X">>

\* urllib.parse.quote_plus
RECURSIVE quote_plus(_)
quote_plus(s) ==
    IF s = <<>> THEN <<>> ELSE QuoteChar(Head(s)) \o quote_plus(Tail(s))

\* f"{datetime.datetime.utcnow().timestamp()}_{attachment.filename}", quoted
FileName(ts, filename) ==
    quote_plus(<<TimestampTokens[ts], "_">> \o filename)

----------------------------------------------------------------------------
(* Payloads and the size limit *)

\* 25 * 1024 * 1024 bytes
MaxBytes == 25 * 1024 * 1024

\* isinstance(data, (bytes, io.BytesIO))
IsBytesLike(data) == data.kind \in {"bytes", "BytesIO"}

\* _get_data_size: the buffer's length in bytes, for either kind
_get_data_size(data) == data.size

----------------------------------------------------------------------------
(* The object store as the client sees it *)

NoCalls == <<>>
Call(op, arg) == [op |-> op, arg |-> arg]

\* a store that keeps the object a key already has
PutObjectKeepsExisting(b, key, data, content_type) ==
    IF key \in DOMAIN b THEN b
    ELSE [k \in (DOMAIN b) \cup {key} |->
            IF k = key
            THEN [body |-> data.body, size |-> data.size,
                  content_type |-> content_type]
            ELSE b[k]]

\* put_object(Body, Bucket, Key, ContentType): the object is replaced
PutObject(b, key, data, content_type) ==
    [k \in (DOMAIN b) \cup {key} |->
        IF k = key
        THEN [body |-> data.body, size |-> data.size, content_type |-> content_type]
        ELSE b[k]]

\* delete_objects(Bucket, Delete): the named keys are removed
DeleteObjects(b, keys) ==
    [k \in (DOMAIN b) \ {keys[i] : i \in 1..Len(keys)} |-> b[k]]

\* the bucket holds the payload under the key
Holds(b, key, data) ==
    key \in DOMAIN b /\ b[key].body = data.body /\ b[key].size = data.size

\* The answers get_object can give for a key.  A store answers "NoSuchKey"
\* for an absent key and a 200 response for a present one; the other answers
\* are the response shapes the code tests for, and a failing request.
ProbeAnswers(b, key) ==
    IF key \in DOMAIN b
    THEN {"s200", "sOther", "noStatus", "null", "error"}
    ELSE {"NoSuchKey", "error"}

----------------------------------------------------------------------------
(* AsyncS3ClientManager: the class attributes *)

\* os.getenv of a variable that is set, and of one that is not
EnvValue(name, present) == IF present THEN name ELSE "None"

\* endpoint_url, r2_access_key_id and r2_secret_access_key, read once when
\* the class body runs; env says which of the variables are set
ClassConfig(env) ==
    [endpoint_url          |-> EnvValue("AWS_ENDPOINT_URL", env.endpoint),
     aws_access_key_id     |-> EnvValue("AWS_ACCESS_KEY_ID", env.key_id),
     aws_secret_access_key |-> EnvValue("AWS_SECRET_ACCESS_KEY", env.secret)]

FullEnv == [endpoint |-> TRUE, key_id |-> TRUE, secret |-> TRUE]

\* "_client = None", "_context = None": the class as its body leaves it
ClassInit(env) ==
    /\ _client = 0
    /\ _context = 0
    /\ contexts = <<>>
    /\ config = ClassConfig(env)

\* no coroutine is running and nothing was sent to a channel
Quiet ==
    /\ ClassInit(FullEnv)
    /\ pc = <<>>
    /\ messages = <<>>

----------------------------------------------------------------------------
(* S3Manager *)

\* What an operation hands back: the exception it raised ("none" when it
\* returned), the bucket and the manager's client afterwards, and the client
\* calls it issued.
Result(raised, b, cl, cs) ==
    [raised |-> raised, bucket |-> b, client |-> cl, calls |-> cs]

\* "if self.client is None: self.client = await AsyncS3ClientManager.get_client()"
ClientCalls(cl) ==
    IF cl = "None" THEN <<Call("get_client", <<>>)>> ELSE NoCalls

\* get_client raises ConnectionError when it obtains no client
ClientFails(cl, gc) == cl = "None" /\ gc # "ok"

\* the limit tested with >= instead of >
ExceedsLimitOffByOne(data) == _get_data_size(data) >= MaxBytes

\* "if _get_data_size(data) > 25 * 1024 * 1024"
ExceedsLimit(data) == _get_data_size(data) > MaxBytes

\* the probe made whatever the overwrite flag
ProbesAlways(overwrite) == TRUE

\* "if not overwrite": whether upload_file_data probes for the key
Probes(overwrite) == ~overwrite

\* a status of 200 not taken as "the object exists"
ProbeVerdictIgnores200(answer) ==
    CASE answer = "noStatus"  -> "return"
      [] answer = "error"     -> "ClientError"
      [] OTHER                -> "proceed"

\* What upload_file_data does with the probe's answer:
\*   NoSuchKey raised           -> caught, the upload proceeds
\*   obj is None                -> the upload proceeds
\*   no status in the response  -> KeyError caught, warning, return
\*   status 200                 -> FileExistsError
\*   any other status           -> the upload proceeds
\*   any other exception        -> propagates
ProbeVerdict(answer) ==
    CASE answer = "NoSuchKey" -> "proceed"
      [] answer = "null"      -> "proceed"
      [] answer = "noStatus"  -> "return"
      [] answer = "s200"      -> "FileExistsError"
      [] answer = "sOther"    -> "proceed"
      [] OTHER                -> "ClientError"

\* S3Manager.upload_file_data.  env holds the environment's answers:
\* env.gc (get_client), env.probe (get_object), env.put (put_object).
UploadFileData(b, cl, data, key_name, overwrite, content_type, skip, env) ==
    IF ~IsBytesLike(data) THEN Result("TypeError", b, cl, NoCalls)
    ELSE IF ExceedsLimit(data)
    THEN IF skip THEN Result("none", b, cl, NoCalls)
                 ELSE Result("ValueError", b, cl, NoCalls)
    ELSE IF ClientFails(cl, env.gc)
    THEN Result("ConnectionError", b, cl, ClientCalls(cl))
    ELSE
      LET probed  == ClientCalls(cl) \o
                     (IF Probes(overwrite)
                      THEN <<Call("get_object", key_name)>> ELSE NoCalls)
          verdict == IF Probes(overwrite) THEN ProbeVerdict(env.probe)
                                          ELSE "proceed"
          putCalls == probed \o <<Call("put_object", key_name)>>
      IN  IF verdict = "proceed"
          THEN IF env.put = "ok"
               THEN Result("none", PutObject(b, key_name, data, content_type),
                           "client", putCalls)
               ELSE Result("ClientError", b, "client", putCalls)
          ELSE IF verdict = "return"
          THEN Result("none", b, "client", probed)
          ELSE Result(verdict, b, "client", probed)

\* The store's documented per-call maximum of delete_objects
MaxBatch == 1000

\* "if len(keys_to_delete) >= 1000: break": the loop stops collecting
BatchFull(n) == n >= MaxBatch

\* "if len(keys_to_delete) > 1000": the recursive call is made
Recurses(n) == n > MaxBatch

\* S3Manager.delete_files_in_list.  env.gc answers get_client; env.errAt is
\* the position in files_to_delete whose probe raises something other than
\* NoSuchKey (0: none does); env.nullAt are the positions whose probe
\* answers None; env.del answers delete_objects.
DeleteFilesInList(b, cl, files_to_delete, env) ==
    IF ClientFails(cl, env.gc)
    THEN Result("ConnectionError", b, cl, ClientCalls(cl))
    ELSE
      LET n == Len(files_to_delete)
          Appends(i) == files_to_delete[i] \in DOMAIN b /\ i \notin env.nullAt
          \* positions whose probe would append the key, in list order
          hits == SelectSeq([i \in 1..n |-> i], Appends)
          \* the loop breaks at the first position reached with a full batch
          full == \E m \in 1..Len(hits) : BatchFull(m)
          first == IF full THEN CHOOSE m \in 1..Len(hits) :
                                   BatchFull(m) /\ \A l \in 1..(m-1) : ~BatchFull(l)
                           ELSE Len(hits)
          lastProbed == IF full THEN hits[first] ELSE n
          keys_to_delete == [j \in 1..first |-> files_to_delete[hits[j]]]
          probes(m) == ClientCalls(cl) \o
                       [i \in 1..m |-> Call("get_object", files_to_delete[i])]
          delCalls == probes(lastProbed) \o
                      <<Call("delete_objects", keys_to_delete)>>
      IN  IF env.errAt \in 1..lastProbed
          THEN Result("ClientError", b, "client", probes(env.errAt))
          ELSE IF keys_to_delete = <<>>
          THEN Result("none", b, "client", probes(lastProbed))
          ELSE IF env.del # "ok"
          THEN Result("ClientError", b, "client", delCalls)
          ELSE IF Recurses(Len(keys_to_delete))
          \* the recursive call passes the {"Key": ...} dicts as keys, which
          \* get_object rejects
          THEN Result("ParamValidationError", DeleteObjects(b, keys_to_delete),
                      "client", delCalls \o
                      <<Call("get_object", [Key |-> keys_to_delete[1]])>>)
          ELSE Result("none", DeleteObjects(b, keys_to_delete), "client", delCalls)

----------------------------------------------------------------------------
(* Calls on one S3Manager: upload_file_data and delete_files_in_list *)

\* how many operations a run makes
MaxOps == 2

ManagerKeys == {<<"k", "1">>, <<"k", "2">>}

\* The payloads handed to upload_file_data: buffers below, at and above the
\* limit, raw bytes, and a value that is neither.
ManagerPayloads ==
    { [kind |-> "BytesIO", body |-> "p1", size |-> 1],
      [kind |-> "BytesIO", body |-> "p2", size |-> MaxBytes],
      [kind |-> "bytes",   body |-> "p3", size |-> MaxBytes + 1],
      [kind |-> "str",     body |-> "p4", size |-> 1] }

NoData == [kind |-> "none", body |-> "none", size |-> 0]

\* The lists handed to delete_files_in_list: no key, one key, both keys,
\* one key twice
ManagerLists ==
    { <<>>, << <<"k", "1">> >>, << <<"k", "1">>, <<"k", "2">> >>,
      << <<"k", "2">>, <<"k", "2">> >> }

ClientAnswers(cl) == IF cl = "None" THEN {"ok", "fail"} ELSE {"ok"}

\* The answers delete_files_in_list is given: a failing probe and the answer
\* of delete_objects, asked for only when there are keys to delete.
RollbackAnswersFor(keys) ==
    IF keys = <<>> THEN {[errAt |-> 0, del |-> "ok"]}
    ELSE [errAt : 0..1, del : {"ok", "error"}]

Issued(cs, op) == \E i \in 1..Len(cs) : cs[i].op = op

InitManager ==
    /\ bucket = <<>>
    /\ client \in {"client", "None"}
    /\ calls = NoCalls
    /\ hist = <<>>
    /\ key_prefix = <<>>
    /\ skip_config = FALSE
    /\ compress_amount = "None"
    /\ uploaded_keys = <<>>
    /\ attachments = <<>>
    /\ files = <<>>
    /\ returned = <<>>
    /\ Quiet

HandlerUnchanged ==
    UNCHANGED <<key_prefix, skip_config, compress_amount, uploaded_keys,
                attachments, files, returned, sharedVars>>

\* await manager.upload_file_data(data, key_name, overwrite, content_type, skip)
Upload ==
    /\ Len(hist) < MaxOps
    /\ \E data \in ManagerPayloads, key \in ManagerKeys,
          overwrite \in BOOLEAN, skip \in BOOLEAN,
          gc \in ClientAnswers(client), put \in {"ok", "error"} :
        \E probe \in ProbeAnswers(bucket, key) :
          LET r == UploadFileData(bucket, client, data, key, overwrite, <<>>,
                                  skip, [gc |-> gc, probe |-> probe, put |-> put])
          IN  /\ bucket' = r.bucket
              /\ client' = r.client
              /\ calls' = r.calls
              /\ hist' = Append(hist,
                   [op |-> "upload", key |-> key, data |-> data,
                    overwrite |-> overwrite, skip |-> skip,
                    existed |-> key \in DOMAIN bucket,
                    gc |-> IF Issued(r.calls, "get_client") THEN gc ELSE "-",
                    answer |-> IF Issued(r.calls, "get_object") THEN probe ELSE "-",
                    put |-> IF Issued(r.calls, "put_object") THEN put ELSE "-",
                    raised |-> r.raised,
                    before |-> bucket])
    /\ HandlerUnchanged

\* await manager.delete_files_in_list(files_to_delete)
Delete ==
    /\ Len(hist) < MaxOps
    /\ \E list \in ManagerLists, gc \in ClientAnswers(client),
          nullAt \in {{}, {1}} :
        \E rb \in RollbackAnswersFor(list) :
          LET r == DeleteFilesInList(bucket, client, list,
                     [gc |-> gc, errAt |-> rb.errAt, nullAt |-> nullAt,
                      del |-> rb.del])
          IN  /\ bucket' = r.bucket
              /\ client' = r.client
              /\ calls' = r.calls
              /\ hist' = Append(hist,
                   [op |-> "delete", key |-> list, data |-> NoData,
                    overwrite |-> FALSE, skip |-> FALSE, existed |-> FALSE,
                    gc |-> IF Issued(r.calls, "get_client") THEN gc ELSE "-",
                    answer |-> "-", put |-> "-",
                    raised |-> r.raised, before |-> bucket])
    /\ HandlerUnchanged

NextManager == Upload \/ Delete

SpecManager == InitManager /\ [][NextManager]_vars

----------------------------------------------------------------------------
(* AttachmentToS3Handler *)

\* self.valid_image_exts
valid_image_exts ==
    << <<".", "p", "n", "g">>, <<".", "j", "p", "g">>,
       <<".", "j", "p", "e", "g">>, <<".", "w", "e", "b", "p">>,
       <<".", "b", "m", "p">>, <<".", "t", "i", "f", "f">>,
       <<".", "g", "i", "f">> >>

\* any(attachment.filename.lower().endswith(ext) for ext in valid_image_exts)
is_valid(filename) ==
    LET lowered == lower(filename)
    IN  \E i \in 1..Len(valid_image_exts) :
            endswith(lowered, valid_image_exts[i])

\* The value the for loop of _get_content_type leaves in content_type: the
\* image type of the first matching extension, "unset" when none matches.
LoopContentType(file_name) ==
    LET lowered == lower(file_name)
        Matches(i) == endswith(lowered, valid_image_exts[i])
    IN  IF \E i \in 1..Len(valid_image_exts) : Matches(i)
        THEN LET first == CHOOSE i \in 1..Len(valid_image_exts) :
                              Matches(i) /\ \A j \in 1..(i - 1) : ~Matches(j)
             IN  <<"image/">> \o lstrip(valid_image_exts[first], {"."})
        ELSE <<"unset">>

\* The if / elif / else chain that follows the loop: every branch assigns
\* content_type, whatever the loop left in it.
ChainContentType(file_name, content_type) ==
    LET lowered == lower(file_name)
    IN  IF endswith(lowered, <<".", "m", "p", "4">>) THEN <<"video/mp4">>
        ELSE IF endswith(lowered, <<".", "m", "p", "3">>) THEN <<"audio/mpeg">>
        ELSE IF endswith(lowered, <<".", "w", "a", "v">>) THEN <<"audio/wav">>
        ELSE IF endswith(lowered, <<".", "o", "g", "g">>) THEN <<"audio/ogg">>
        ELSE <<"html/text">>

\* AttachmentToS3Handler._get_content_type
_get_content_type(file_name) ==
    ChainContentType(file_name, LoopContentType(file_name))

\* The buffer the fetch yields for an attachment, and what compress_image
\* makes of it: a new JPEG buffer of its own size.
Fetched(a, size) ==
    [kind |-> "BytesIO", body |-> [src |-> a, enc |-> "raw"], size |-> size]
compress_image(data, size) ==
    [kind |-> "BytesIO", body |-> [src |-> data.body.src, enc |-> "jpeg"],
     size |-> size]

\* the fetched buffer kept when the fetch or the transcoding fails
DataToUploadFallsBack(a, filename, fetch, compress) ==
    IF fetch.ok /\ is_valid(filename) /\ compress.ok
    THEN compress_image(Fetched(a, fetch.size), compress.size)
    ELSE Fetched(a, fetch.size)

\* The try block that fetches and, for an image name, transcodes.  fetch and
\* compress are the environment's answers: a failure, or the size of the
\* buffer obtained.  Any exception is swallowed and leaves data_to_upload at None
\* (NoData).
DataToUpload(a, filename, fetch, compress) ==
    IF ~fetch.ok THEN NoData
    ELSE IF is_valid(filename)
         THEN IF ~compress.ok THEN NoData
              ELSE compress_image(Fetched(a, fetch.size), compress.size)
         ELSE Fetched(a, fetch.size)

\* How the transcoding of the call went: compress_image is called only on
\* the fetched buffer of an image name
Transcode(filename, fetch, compress) ==
    IF fetch.ok /\ is_valid(filename)
    THEN IF compress.ok THEN "done" ELSE "failed"
    ELSE "not tried"

\* key = f"{self.key_prefix}/{file_name}" if self.key_prefix else file_name
ObjectKey(prefix, file_name) ==
    IF prefix # <<>> THEN prefix \o <<"/">> \o file_name ELSE file_name

\* file_url = f"/{self.key_prefix}/{file_name}"
FileUrl(prefix, file_name) == <<"/">> \o prefix \o <<"/">> \o file_name

\* What process_asset appends to self.uploaded_keys after an upload: the
\* method has no statement that does.
AfterUpload(keys, key) == keys

\* The upload and its exception handler: upload_file_data through a new
\* S3Manager holding the handler's client; on any exception
\* delete_files_in_list(self.uploaded_keys) on that manager, then "raise e".
\* An exception of delete_files_in_list replaces e.
UploadOrRollback(b, cl, data, key, content_type, skip, keys, env) ==
    LET up == UploadFileData(b, cl, data, key, TRUE, content_type, skip, env)
        rb == DeleteFilesInList(up.bucket, up.client, keys, env)
    IN  IF up.raised = "none"
        THEN [raised |-> "none", bucket |-> up.bucket, calls |-> up.calls,
              rollback |-> <<"not called">>, upload |-> "none"]
        ELSE [raised |-> IF rb.raised = "none" THEN up.raised ELSE rb.raised,
              bucket |-> rb.bucket, calls |-> up.calls \o rb.calls,
              rollback |-> <<"called">> \o keys, upload |-> up.raised]

\* how many process_asset calls of one handler return
MaxReturned == 3
\* how many clock readings there are
NumTimestamps == 2

\* The caller's attachments: an image, a video and a text file, at their
\* CDN URLs
Filenames == << <<"a", ".", "P", "N", "G">>,
                <<"b", " ", "c", ".", "m", "p", "4">>,
                <<"d", ".", "t", "x", "t">> >>
CdnUrl(filename) == <<"https://cdn/">> \o filename

Failed == [ok |-> FALSE, size |-> 0]
Obtained(size) == [ok |-> TRUE, size |-> size]
FetchAnswers == {Failed, Obtained(1), Obtained(MaxBytes + 1)}
CompressAnswers == {Failed, Obtained(2), Obtained(MaxBytes + 1)}
KeyPrefixes == {<<>>, <<"/">>, <<"e">>, <<"e", "/">>}

Init ==
    /\ bucket = <<>>
    /\ client \in {"client", "None"}
    /\ calls = NoCalls
    /\ hist = <<>>
    /\ key_prefix \in KeyPrefixes
    /\ skip_config \in BOOLEAN
    /\ compress_amount = "80"
    /\ uploaded_keys = <<>>
    /\ attachments = [a \in 1..Len(Filenames) |->
                        [filename |-> Filenames[a],
                         url |-> CdnUrl(Filenames[a]),
                         proxy_url |-> CdnUrl(Filenames[a])]]
    /\ files = <<>>
    /\ returned = <<>>
    /\ Quiet

\* session.get(attachment.url): the CDN answers or fails; a url already
\* rewritten by process_asset is a path with no scheme or host, which the
\* HTTP session cannot fetch.
FetchAnswersFor(attachment) ==
    IF attachment.url = CdnUrl(attachment.filename) THEN FetchAnswers
                                                    ELSE {Failed}

\* The answers the environment is asked for: the codec only after a fetch of
\* an image name, put_object only for a payload that passes the size test.
CompressAnswersFor(filename, fetch) ==
    IF fetch.ok /\ is_valid(filename) THEN CompressAnswers ELSE {Failed}
PutAnswersFor(data) ==
    IF IsBytesLike(data) /\ ~ExceedsLimit(data) THEN {"ok", "error"} ELSE {"ok"}

\* await handler.process_asset(attachments[a]) on the S3 handler
ProcessAsset ==
    /\ Len(returned) < MaxReturned
    /\ \E a \in DOMAIN attachments, ts \in 1..NumTimestamps :
       \E file_name \in {FileName(ts, attachments[a].filename)},
          prefix \in {removesuffix(key_prefix, <<"/">>)},
          content_type \in
              {_get_content_type(FileName(ts, attachments[a].filename))},
          fetch \in FetchAnswersFor(attachments[a]) :
       \E compress \in CompressAnswersFor(attachments[a].filename, fetch) :
       \E data_to_upload \in
              {DataToUpload(a, attachments[a].filename, fetch, compress)},
          key \in {ObjectKey(prefix, file_name)},
          file_url \in {FileUrl(prefix, file_name)} :
         IF data_to_upload = NoData
         THEN \* raise ValueError("Could not obtain data to upload ...")
              /\ hist' = <<[op |-> "process_asset", att |-> a, key |-> <<>>,
                            data |-> NoData, fetched |-> fetch.ok,
                            transcode |-> Transcode(attachments[a].filename,
                                                    fetch, compress),
                            raised |-> "ValueError", upload |-> "not called",
                            rollback |-> <<"not called">>, result |-> 0]>>
              /\ calls' = NoCalls
              /\ UNCHANGED <<bucket, key_prefix, uploaded_keys,
                             attachments, returned>>
         ELSE \E gc \in ClientAnswers(client),
                 put \in PutAnswersFor(data_to_upload),
                 rb \in RollbackAnswersFor(uploaded_keys) :
              \E r \in {UploadOrRollback(bucket, client, data_to_upload, key,
                          content_type, skip_config,
                          uploaded_keys,
                          [gc |-> gc, probe |-> "error", put |-> put,
                           errAt |-> rb.errAt, nullAt |-> {}, del |-> rb.del])} :
              /\ key_prefix' = prefix
              /\ bucket' = r.bucket
              /\ calls' = r.calls
              /\ hist' = <<[op |-> "process_asset", att |-> a, key |-> key,
                            data |-> data_to_upload, fetched |-> fetch.ok,
                            transcode |-> Transcode(attachments[a].filename,
                                                    fetch, compress),
                            raised |-> r.raised, upload |-> r.upload,
                            rollback |-> r.rollback,
                            result |-> IF r.raised = "none" THEN a ELSE 0]>>
              /\ IF r.raised = "none"
                 THEN /\ attachments' =
                           [attachments EXCEPT ![a].url = file_url,
                                               ![a].proxy_url = file_url]
                      /\ uploaded_keys' = AfterUpload(uploaded_keys, key)
                      /\ returned' = Append(returned,
                             [key |-> key,
                              stored |-> Issued(r.calls, "put_object")])
                 ELSE UNCHANGED <<attachments, uploaded_keys, returned>>
    /\ UNCHANGED <<client, skip_config, compress_amount, files, sharedVars>>

Next == ProcessAsset

Spec == Init /\ [][Next]_vars

----------------------------------------------------------------------------
(* _get_content_type over file names *)

\* str.upper(), to write the upper-case variants of the names below
UpperChar(c) ==
    IF c \in LowerSet
    THEN UpperChars[CHOOSE i \in 1..Len(LowerChars) : LowerChars[i] = c]
    ELSE c
upper(s) == [i \in 1..Len(s) |-> UpperChar(s[i])]

NameStems == { <<"a">>, <<"a", " ", "b">>, <<"x", ".", "p", "n", "g">>,
               <<"m", "p", "4">> }
NameExtensions ==
    { valid_image_exts[i] : i \in 1..Len(valid_image_exts) } \cup
    { <<".", "m", "p", "4">>, <<".", "m", "p", "3">>, <<".", "w", "a", "v">>,
      <<".", "o", "g", "g">>, <<".", "t", "x", "t">>, <<".", "p", "d", "f">>,
      <<>> }
ContentTypeNames ==
    { stem \o ext : stem \in NameStems, ext \in NameExtensions } \cup
    { stem \o upper(ext) : stem \in NameStems, ext \in NameExtensions }

InitContentType ==
    /\ bucket = <<>>
    /\ client = "client"
    /\ calls = NoCalls
    /\ hist = <<>>
    /\ key_prefix = <<>>
    /\ skip_config = FALSE
    /\ compress_amount = "None"
    /\ uploaded_keys = <<>>
    /\ attachments = <<>>
    /\ files = <<>>
    /\ returned = <<>>
    /\ Quiet

\* content_type = self._get_content_type(file_name), as process_asset calls it
\* on the generated file name
GetContentType ==
    /\ \E filename \in ContentTypeNames, ts \in 1..NumTimestamps :
         \E file_name \in {FileName(ts, filename)} :
           hist' = <<[op |-> "_get_content_type", filename |-> filename,
                      file_name |-> file_name,
                      content_type |-> _get_content_type(file_name)]>>
    /\ UNCHANGED <<bucket, client, calls, key_prefix, skip_config,
                   compress_amount, uploaded_keys, attachments, files, returned,
                   sharedVars>>

NextContentType == GetContentType

SpecContentType == InitContentType /\ [][NextContentType]_vars

----------------------------------------------------------------------------
(* delete_files_in_list over long lists *)

\* The numbers of keys in the bucket and in the list: none, one, one batch
\* less one, one batch, one batch and a half, two batches and a half
BulkSizes == {0, 1, 999, 1000, 1500, 2500}

BulkObject == [body |-> "blob", size |-> 1, content_type |-> <<"html/text">>]

\* The bucket holds the keys 1..n (key i stands for the i-th object name)
InitBulk ==
    /\ \E n \in BulkSizes : bucket = [k \in 1..n |-> BulkObject]
    /\ client = "client"
    /\ calls = NoCalls
    /\ hist = <<>>
    /\ key_prefix = <<>>
    /\ skip_config = FALSE
    /\ compress_amount = "None"
    /\ uploaded_keys = <<>>
    /\ attachments = <<>>
    /\ files = <<>>
    /\ returned = <<>>
    /\ Quiet

\* await manager.delete_files_in_list([key 1, ..., key m]) on a store that
\* answers every request
BulkDelete ==
    /\ \E m \in BulkSizes :
         \E r \in {DeleteFilesInList(bucket, client, [i \in 1..m |-> i],
                     [gc |-> "ok", errAt |-> 0, nullAt |-> {}, del |-> "ok"])} :
           /\ bucket' = r.bucket
           /\ calls' = r.calls
           /\ hist' = <<[op |-> "delete_files_in_list", n |-> m,
                         existed |-> (1..m) \subseteq DOMAIN bucket,
                         raised |-> r.raised]>>
    /\ UNCHANGED <<client, key_prefix, skip_config, compress_amount,
                   uploaded_keys, attachments, files, returned, sharedVars>>

NextBulk == BulkDelete

SpecBulk == InitBulk /\ [][NextBulk]_vars

----------------------------------------------------------------------------
(* AttachmentToLocalFileHostHandler *)

\* self.url_base
url_base == <<"https://files">>

\* file_url = f"{self.url_base}/{file_name}"
LocalFileUrl(file_name) == url_base \o <<"/">> \o file_name

\* The file written under base_path / file_name
WriteFile(fs, file_name, content) ==
    [f \in (DOMAIN fs) \cup {file_name} |->
        IF f = file_name THEN content ELSE fs[f]]

\* "if self.compress_amount is not None and is_valid"
Compresses(amount, filename) == amount # "None" /\ is_valid(filename)

\* The compressing branch: fetch, decode, convert, save as JPEG.  Every
\* exception is caught and passed over; nothing is written then.
CompressBranch(fs, a, file_name, fetch, compress) ==
    IF fetch.ok /\ compress.ok
    THEN WriteFile(fs, file_name, [src |-> a, enc |-> "jpeg"])
    ELSE fs

InitLocal ==
    /\ bucket = <<>>
    /\ client = "client"
    /\ calls = NoCalls
    /\ hist = <<>>
    /\ key_prefix = <<>>
    /\ skip_config = FALSE
    /\ compress_amount \in {"None", "80"}
    /\ uploaded_keys = <<>>
    /\ attachments = [a \in 1..Len(Filenames) |->
                        [filename |-> Filenames[a],
                         url |-> CdnUrl(Filenames[a]),
                         proxy_url |-> CdnUrl(Filenames[a])]]
    /\ files = <<>>
    /\ returned = <<>>
    /\ Quiet

\* await handler.process_asset(attachments[a]) on the local file host handler
LocalProcessAsset ==
    /\ Len(returned) < MaxReturned
    /\ \E a \in DOMAIN attachments, ts \in 1..NumTimestamps,
          fetch \in {Failed, Obtained(1)} :
       \E file_name \in {FileName(ts, attachments[a].filename)},
          compress \in CompressAnswersFor(attachments[a].filename, fetch) :
         IF Compresses(compress_amount, attachments[a].filename)
            \/ fetch.ok
         THEN \* the branch taken returns
              /\ files' =
                   IF Compresses(compress_amount, attachments[a].filename)
                   THEN CompressBranch(files, a, file_name, fetch, compress)
                   ELSE \* await attachment.save(asset_path)
                        WriteFile(files, file_name, [src |-> a, enc |-> "raw"])
              /\ attachments' =
                   [attachments EXCEPT ![a].url = LocalFileUrl(file_name),
                                       ![a].proxy_url = LocalFileUrl(file_name)]
              /\ returned' = Append(returned, [key |-> file_name, stored |-> TRUE])
              /\ hist' = <<[op |-> "process_asset", att |-> a,
                            file_name |-> file_name,
                            compressing |->
                                Compresses(compress_amount, attachments[a].filename),
                            fetched |-> fetch.ok,
                            transcoded |-> fetch.ok /\ compress.ok,
                            raised |-> "none"]>>
         ELSE \* attachment.save raises: the download failed
              /\ hist' = <<[op |-> "process_asset", att |-> a,
                            file_name |-> file_name, compressing |-> FALSE,
                            fetched |-> FALSE, transcoded |-> FALSE,
                            raised |-> "HTTPException"]>>
              /\ UNCHANGED <<files, attachments, returned>>
    /\ UNCHANGED <<bucket, client, calls, key_prefix, skip_config,
                   compress_amount, uploaded_keys, sharedVars>>

NextLocal == LocalProcessAsset

SpecLocal == InitLocal /\ [][NextLocal]_vars

----------------------------------------------------------------------------
(* AttachmentToDiscordChannelHandler *)

\* the attachment record that is the call's argument, and the first
\* attachment of a message of the channel
Argument(a) == [record |-> "argument", id |-> a]
OfMessage(m) == [record |-> "message", id |-> m]
NoRecord == [record |-> "none", id |-> 0]

\* The URL discord gives the file of a sent message
SentUrl(filename) == <<"https://cdn/sent/">> \o filename

\* msg = await self.channel.send(file=attach): a new message whose one
\* attachment is the uploaded file
Send(msgs, a, filename) ==
    Append(msgs, [attachments |->
        <<[filename |-> filename, url |-> SentUrl(filename),
           proxy_url |-> SentUrl(filename), src |-> a]>>])

SendAnswers == {"ok", "HTTPException"}

InitChannel ==
    /\ bucket = <<>>
    /\ client = "None"
    /\ calls = NoCalls
    /\ hist = <<>>
    /\ key_prefix = <<>>
    /\ skip_config = FALSE
    /\ compress_amount = "None"
    /\ uploaded_keys = <<>>
    /\ attachments = [a \in 1..Len(Filenames) |->
                        [filename |-> Filenames[a],
                         url |-> CdnUrl(Filenames[a]),
                         proxy_url |-> CdnUrl(Filenames[a])]]
    /\ files = <<>>
    /\ returned = <<>>
    /\ Quiet

\* await handler.process_asset(attachments[a]) on the channel handler: the
\* fetch, channel.send, "return msg.attachments[0]"; every exception
\* propagates
ChannelProcessAsset ==
    /\ Len(returned) < MaxReturned
    /\ \E a \in DOMAIN attachments, fetch \in {Failed, Obtained(1)},
          send \in SendAnswers :
         IF ~fetch.ok
         THEN /\ hist' = <<[op |-> "process_asset", att |-> a,
                            raised |-> "ClientResponseError",
                            result |-> NoRecord]>>
              /\ UNCHANGED <<messages, returned>>
         ELSE IF send # "ok"
         THEN /\ hist' = <<[op |-> "process_asset", att |-> a,
                            raised |-> "HTTPException", result |-> NoRecord]>>
              /\ UNCHANGED <<messages, returned>>
         ELSE /\ messages' = Send(messages, a, attachments[a].filename)
              /\ returned' = Append(returned,
                     [key |-> SentUrl(attachments[a].filename), stored |-> TRUE])
              /\ hist' = <<[op |-> "process_asset", att |-> a,
                            raised |-> "none",
                            result |-> OfMessage(Len(messages) + 1)]>>
    /\ UNCHANGED <<bucket, client, calls, key_prefix, skip_config,
                   compress_amount, uploaded_keys, attachments, files,
                   _client, _context, contexts, config, pc>>

NextChannel == ChannelProcessAsset

SpecChannel == InitChannel /\ [][NextChannel]_vars

----------------------------------------------------------------------------
(* AsyncS3ClientManager: get_client and close *)

\* how many tasks call the manager, and how many calls a run makes
NumTasks == 3
MaxCalls == 3

Tasks == 1..NumTasks

\* which of the three variables the environment sets
Environments == [endpoint : BOOLEAN, key_id : BOOLEAN, secret : BOOLEAN]

\* session.create_client(service_name="s3", endpoint_url=..., ...): a context
\* that holds the class's configuration.  It opens nothing until it is
\* entered.  entered: whether __aenter__ has finished, and how ("pending",
\* "yes", "no"); closed: an __aexit__ has torn the connection down; early: an
\* __aexit__ was begun on it before its __aenter__ had finished.
NewContext(cfg) ==
    [config |-> cfg, entered |-> "pending", closed |-> FALSE, early |-> FALSE]

\* the connections that are open
Open(ctxs) ==
    {n \in DOMAIN ctxs : ctxs[n].entered = "yes" /\ ~ctxs[n].closed}

\* the class attributes and the contexts, as a call finds or leaves them
Snapshot(cl, ctx, ctxs) == [client |-> cl, context |-> ctx, contexts |-> ctxs]

Idle == [at |-> "idle", ctx |-> 0, before |-> Snapshot(0, 0, <<>>)]
Suspended(at, n) ==
    [at |-> at, ctx |-> n, before |-> Snapshot(_client, _context, contexts)]

\* the calls begun so far
Running == {t \in DOMAIN pc : pc[t].at # "idle"}
Started == Len(hist) + Cardinality(Running)

\* the client made on every call
NeedsClientAlways(cl) == TRUE

\* "if cls._client is None"
NeedsClient(cl) == cl = 0

\* "if cls._context is not None"
HasContext(ctx) == ctx # 0

\* What __aenter__ and __aexit__ of a context can do: __aenter__ returns the
\* client, returns a false value, or raises; __aexit__ returns or raises.
AenterAnswers == {"client", "none", "raise"}
AexitAnswers == {"ok", "raise"}

\* the record of a completed call
Completed(op, t, answer, raised, result, n, before, after) ==
    [op |-> op, task |-> t, answer |-> answer, raised |-> raised,
     result |-> result, ctx |-> n, before |-> before, after |-> after]

handlerVars == <<bucket, client, calls, key_prefix, skip_config,
                 compress_amount, uploaded_keys, attachments, files, returned>>

\* no handler and no S3Manager takes part
NoHandler ==
    /\ bucket = <<>>
    /\ client = "None"
    /\ calls = NoCalls
    /\ key_prefix = <<>>
    /\ skip_config = FALSE
    /\ compress_amount = "None"
    /\ uploaded_keys = <<>>
    /\ attachments = <<>>
    /\ files = <<>>
    /\ returned = <<>>

\* get_client up to its first await: an existing client is returned at
\* once; otherwise the context is made and stored, and __aenter__ awaited
GetClient(t) ==
    /\ pc[t].at = "idle"
    /\ Started < MaxCalls
    /\ IF NeedsClient(_client)
       THEN /\ contexts' = Append(contexts, NewContext(config))
            /\ _context' = Len(contexts) + 1
            /\ pc' = [pc EXCEPT ![t] = Suspended("aenter", Len(contexts) + 1)]
            /\ UNCHANGED <<_client, hist>>
       ELSE /\ hist' = Append(hist,
                 Completed("get_client", t, "-", "none", _client, 0,
                           Snapshot(_client, _context, contexts),
                           Snapshot(_client, _context, contexts)))
            /\ UNCHANGED <<_client, _context, contexts, pc>>
    /\ UNCHANGED <<handlerVars, config, messages>>

\* get_client from the return of __aenter__ to its end:
\* "cls._client = await cls._context.__aenter__()", the test of the client
\* and "return cls._client"
Enters(t) ==
    /\ pc[t].at = "aenter"
    /\ \E answer \in AenterAnswers :
        LET n == pc[t].ctx
            entered == [contexts EXCEPT ![n].entered =
                            IF answer = "client" THEN "yes" ELSE "no"]
            assigned == IF answer = "client" THEN n
                        ELSE IF answer = "none" THEN 0 ELSE _client
            raised == IF answer = "raise" THEN "ClientError"
                      ELSE IF assigned = 0 THEN "ConnectionError" ELSE "none"
        IN  /\ contexts' = entered
            /\ _client' = assigned
            /\ hist' = Append(hist,
                 Completed("get_client", t, answer, raised,
                           IF raised = "none" THEN assigned ELSE 0, n,
                           pc[t].before, Snapshot(assigned, _context, entered)))
    /\ pc' = [pc EXCEPT ![t] = Idle]
    /\ UNCHANGED <<handlerVars, _context, config, messages>>

\* close up to its await: nothing to do without a context; otherwise
\* __aexit__ of the stored context is awaited
Close(t) ==
    /\ pc[t].at = "idle"
    /\ Started < MaxCalls
    /\ IF HasContext(_context)
       THEN /\ pc' = [pc EXCEPT ![t] = Suspended("aexit", _context)]
            /\ contexts' = [contexts EXCEPT ![_context].early =
                               @ \/ contexts[_context].entered = "pending"]
            /\ UNCHANGED hist
       ELSE /\ hist' = Append(hist,
                 Completed("close", t, "-", "none", 0, 0,
                           Snapshot(_client, _context, contexts),
                           Snapshot(_client, _context, contexts)))
            /\ UNCHANGED <<contexts, pc>>
    /\ UNCHANGED <<handlerVars, _client, _context, config, messages>>

\* close from the return of __aexit__: "cls._client = None",
\* "cls._context = None"; an exception of __aexit__ leaves both as they are
Exits(t) ==
    /\ pc[t].at = "aexit"
    /\ \E answer \in AexitAnswers :
        LET n == pc[t].ctx
            exited == IF answer = "ok"
                      THEN [contexts EXCEPT ![n].closed =
                                @ \/ contexts[n].entered = "yes"]
                      ELSE contexts
            cl == IF answer = "ok" THEN 0 ELSE _client
            ctx == IF answer = "ok" THEN 0 ELSE _context
        IN  /\ contexts' = exited
            /\ _client' = cl
            /\ _context' = ctx
            /\ hist' = Append(hist,
                 Completed("close", t, answer,
                           IF answer = "ok" THEN "none" ELSE "ClientError",
                           0, n, pc[t].before, Snapshot(cl, ctx, exited)))
    /\ pc' = [pc EXCEPT ![t] = Idle]
    /\ UNCHANGED <<handlerVars, config, messages>>

\* The calls of one task, one after the other
InitClientSeq ==
    /\ NoHandler
    /\ hist = <<>>
    /\ \E env \in Environments : ClassInit(env)
    /\ pc = [t \in {1} |-> Idle]
    /\ messages = <<>>

NextClientSeq == GetClient(1) \/ Enters(1) \/ Close(1) \/ Exits(1)

SpecClientSeq == InitClientSeq /\ [][NextClientSeq]_vars

\* The calls of several tasks, interleaved at the awaits
InitClient ==
    /\ NoHandler
    /\ hist = <<>>
    /\ ClassInit(FullEnv)
    /\ pc = [t \in Tasks |-> Idle]
    /\ messages = <<>>

NextClient == \E t \in Tasks : GetClient(t) \/ Enters(t) \/ Close(t) \/ Exits(t)

SpecClient == InitClient /\ [][NextClient]_vars

----------------------------------------------------------------------------
(* upload_file_data called by concurrent tasks *)

\* how many upload_file_data calls a run makes
MaxUploads == 2

\* the two tasks that share a manager holding a client
Uploaders == {1, 2}

NotUploading ==
    [at |-> "idle", key |-> <<>>, data |-> NoData, overwrite |-> FALSE,
     skip |-> FALSE, answer |-> "-"]

\* the record of a completed upload_file_data call: its arguments, the
\* answers it was given, the exception it raised, and the bucket before and
\* after its last step
Uploaded(t, call, answer, put, raised, after) ==
    [op |-> "upload", task |-> t, key |-> call.key, data |-> call.data,
     overwrite |-> call.overwrite, skip |-> call.skip, answer |-> answer,
     put |-> put, raised |-> raised, before |-> bucket, after |-> after]

InitRace ==
    /\ bucket = <<>>
    /\ client = "client"
    /\ calls = NoCalls
    /\ hist = <<>>
    /\ key_prefix = <<>>
    /\ skip_config = FALSE
    /\ compress_amount = "None"
    /\ uploaded_keys = <<>>
    /\ attachments = <<>>
    /\ files = <<>>
    /\ returned = <<>>
    /\ ClassInit(FullEnv)
    /\ pc = [t \in Uploaders |-> NotUploading]
    /\ messages = <<>>

RaceUnchanged ==
    UNCHANGED <<client, calls, key_prefix, skip_config, compress_amount,
                uploaded_keys, attachments, files, returned,
                _client, _context, contexts, config, messages>>

\* upload_file_data up to its first await: the type and size tests, then
\* get_object when overwrite is False and put_object otherwise
UploadBegins(t) ==
    /\ pc[t].at = "idle"
    /\ Started < MaxUploads
    /\ \E data \in ManagerPayloads, key \in ManagerKeys, overwrite \in BOOLEAN :
       \E skip \in (IF IsBytesLike(data) /\ ExceedsLimit(data)
                    THEN BOOLEAN ELSE {FALSE}) :
         LET call == [at |-> IF Probes(overwrite) THEN "get_object"
                                                  ELSE "put_object",
                      key |-> key, data |-> data, overwrite |-> overwrite,
                      skip |-> skip, answer |-> "-"]
             stopped == IF ~IsBytesLike(data) THEN "TypeError"
                        ELSE IF ~ExceedsLimit(data) THEN "goes on"
                        ELSE IF skip THEN "none" ELSE "ValueError"
         IN  IF stopped = "goes on"
             THEN pc' = [pc EXCEPT ![t] = call] /\ UNCHANGED hist
             ELSE /\ hist' = Append(hist,
                        Uploaded(t, call, "-", "-", stopped, bucket))
                  /\ UNCHANGED pc
    /\ UNCHANGED bucket
    /\ RaceUnchanged

\* the answer of get_object arrives, given by the bucket as it is then
ProbeReturns(t) ==
    /\ pc[t].at = "get_object"
    /\ \E answer \in ProbeAnswers(bucket, pc[t].key) :
         LET verdict == ProbeVerdict(answer)
         IN  IF verdict = "proceed"
             THEN /\ pc' = [pc EXCEPT ![t].at = "put_object",
                                      ![t].answer = answer]
                  /\ UNCHANGED hist
             ELSE /\ hist' = Append(hist,
                        Uploaded(t, pc[t], answer, "-",
                                 IF verdict = "return" THEN "none" ELSE verdict,
                                 bucket))
                  /\ pc' = [pc EXCEPT ![t] = NotUploading]
    /\ UNCHANGED bucket
    /\ RaceUnchanged

\* put_object is served and the call returns
PutReturns(t) ==
    /\ pc[t].at = "put_object"
    /\ \E put \in {"ok", "error"} :
         LET after == IF put = "ok"
                      THEN PutObject(bucket, pc[t].key, pc[t].data, <<>>)
                      ELSE bucket
         IN  /\ bucket' = after
             /\ hist' = Append(hist,
                    Uploaded(t, pc[t], pc[t].answer, put,
                             IF put = "ok" THEN "none" ELSE "ClientError",
                             after))
    /\ pc' = [pc EXCEPT ![t] = NotUploading]
    /\ RaceUnchanged

NextRace ==
    \E t \in Uploaders : UploadBegins(t) \/ ProbeReturns(t) \/ PutReturns(t)

SpecRace == InitRace /\ [][NextRace]_vars

----------------------------------------------------------------------------
(* Properties of AttachmentToS3Handler.process_asset *)

\* the record of the last process_asset call
Last == hist[1]
Called == hist # <<>> /\ hist[1].op = "process_asset"

\* the keys of the calls that returned, and of those whose upload stored
ReturnedKeys == [i \in 1..Len(returned) |-> returned[i].key]
StoredKeys ==
    LET stored == SelectSeq(returned, LAMBDA e : e.stored)
    IN  [i \in 1..Len(stored) |-> stored[i].key]

\* the upload of the last call raised
UploadFailed == Called /\ Last.upload \notin {"none", "not called"}

\* C1: when the upload of a process_asset call fails, delete_files_in_list
\* is called with exactly the keys this handler has uploaded successfully so
\* far, in order.
C1_RollbackNamesUploadedKeys ==
    UploadFailed => Last.rollback = <<"called">> \o StoredKeys

\* C2: uploaded_keys is, in every state, the sequence of the keys of the
\* process_asset calls that returned successfully, in order.
C2_UploadedKeysIsTheLog ==
    uploaded_keys = ReturnedKeys

\* C3: when process_asset returns, the bucket holds the call's payload under
\* the call's key, and url and proxy_url of the attachment are the same URL,
\* whose path ends in that key.
C3_ReturnedMeansStored ==
    (Called /\ Last.raised = "none") =>
        /\ Holds(bucket, Last.key, Last.data)
        /\ attachments[Last.att].url = attachments[Last.att].proxy_url
        /\ endswith(attachments[Last.att].url, Last.key)

\* C6: when the fetch succeeded and the transcoding failed, process_asset
\* goes on to upload the fetched, untransformed buffer instead of raising
\* the no-data ValueError.
C6_TranscodeFailureFallsBack ==
    (Called /\ Last.fetched /\ Last.transcode = "failed") =>
        /\ Last.upload # "not called"
        /\ Last.data.body = [src |-> Last.att, enc |-> "raw"]

\* the fetch/transcode step of the call yielded no payload
NoPayload(h) == ~h.fetched \/ h.transcode = "failed"

\* C14: a process_asset call whose fetch/transcode step yields no payload
\* raises the no-data ValueError; it calls neither upload_file_data nor
\* delete_files_in_list, issues no client call, and leaves the attachment's
\* url and proxy_url, the bucket and uploaded_keys as they were.
C14_NoDataNoEffect ==
    [][(hist' # <<>> /\ hist'[1].op = "process_asset" /\ NoPayload(hist'[1])) =>
          /\ hist'[1].raised = "ValueError"
          /\ hist'[1].upload = "not called"
          /\ hist'[1].rollback = <<"not called">>
          /\ calls' = NoCalls
          /\ UNCHANGED <<bucket, uploaded_keys, attachments>>]_vars

C14_Witness ==
    /\ Called /\ NoPayload(Last)
    /\ Last.raised = "ValueError"
    /\ calls = NoCalls
    /\ returned # <<>> /\ bucket # <<>>
    /\ attachments[Last.att].url = CdnUrl(attachments[Last.att].filename)

\* C15: when the upload of a process_asset call fails, the exception that
\* reaches the caller is the upload's, whatever delete_files_in_list does.
C15_CallerSeesUploadError ==
    UploadFailed => Last.raised = Last.upload

\* no two slashes follow one another
NoEmptySegment(path) ==
    \A i \in 1..(Len(path) - 1) : ~(path[i] = "/" /\ path[i + 1] = "/")

\* C20: for every configured key prefix, the url and proxy_url a returning
\* process_asset writes are "/" followed by the object key of the call, and
\* neither the key nor the URL has an empty path segment.
C20_UrlIsSlashKey ==
    (Called /\ Last.raised = "none") =>
        /\ attachments[Last.att].url = <<"/">> \o Last.key
        /\ attachments[Last.att].proxy_url = <<"/">> \o Last.key
        /\ NoEmptySegment(Last.key)
        /\ NoEmptySegment(attachments[Last.att].url)

----------------------------------------------------------------------------
(* Properties of upload_file_data *)

\* the bucket as operation i of the run left it
After(i) == IF i = Len(hist) THEN bucket ELSE hist[i + 1].before

\* a payload upload_file_data accepts: bytes or a buffer within the limit
Accepted(data) ==
    data.kind \in {"bytes", "BytesIO"} /\ data.size <= 25 * 1024 * 1024

\* the environment of operation h did not fail: get_client gave a client,
\* put_object stored, and the probe answered as the store's contents dictate
EnvSound(h) ==
    /\ h.gc # "fail"
    /\ h.put # "error"
    /\ h.answer \in {"-", IF h.existed THEN "s200" ELSE "NoSuchKey"}

\* operations i and i+1 are uploads of accepted payloads to the same key
\* with the given overwrite flag, in a sound environment
TwoUploads(i, overwrite) ==
    /\ i + 1 <= Len(hist)
    /\ hist[i].op = "upload" /\ hist[i + 1].op = "upload"
    /\ hist[i].key = hist[i + 1].key
    /\ hist[i].overwrite = overwrite /\ hist[i + 1].overwrite = overwrite
    /\ Accepted(hist[i].data) /\ Accepted(hist[i + 1].data)
    /\ EnvSound(hist[i]) /\ EnvSound(hist[i + 1])

\* C7: two upload_file_data calls in sequence with overwrite=False and the
\* same key, the key absent before the first: the first returns normally and
\* has written its payload, the second raises FileExistsError and the stored
\* object is still the first payload.
C7_SecondUploadRejected ==
    \A i \in 1..Len(hist) :
        (TwoUploads(i, FALSE) /\ ~hist[i].existed) =>
            /\ hist[i].raised = "none"
            /\ Holds(After(i), hist[i].key, hist[i].data)
            /\ hist[i + 1].raised = "FileExistsError"
            /\ Holds(After(i + 1), hist[i].key, hist[i].data)

C7_Witness ==
    /\ Len(hist) >= 2
    /\ TwoUploads(1, FALSE) /\ ~hist[1].existed
    /\ hist[1].data.body # hist[2].data.body
    /\ hist[2].raised = "FileExistsError"
    /\ Holds(bucket, hist[1].key, hist[1].data)

\* C8: upload_file_data with overwrite=True issues no get_object, and with an
\* accepted payload it issues put_object; two such calls in sequence with the
\* same key and different payloads both return normally and the stored object
\* is then the second payload.
C8_OverwriteAlwaysWrites ==
    /\ \A i \in 1..Len(hist) :
        (hist[i].op = "upload" /\ hist[i].overwrite) =>
            /\ hist[i].answer = "-"
            /\ (i = Len(hist) => ~Issued(calls, "get_object"))
            /\ (Accepted(hist[i].data) /\ hist[i].gc # "fail") => hist[i].put # "-"
    /\ \A i \in 1..Len(hist) :
        (TwoUploads(i, TRUE) /\ hist[i].data.body # hist[i + 1].data.body) =>
            /\ hist[i].raised = "none"
            /\ Holds(After(i), hist[i].key, hist[i].data)
            /\ hist[i + 1].raised = "none"
            /\ Holds(After(i + 1), hist[i].key, hist[i + 1].data)

C8_Witness ==
    /\ Len(hist) >= 2
    /\ TwoUploads(1, TRUE)
    /\ hist[1].data.body # hist[2].data.body
    /\ Holds(hist[2].before, hist[1].key, hist[1].data)
    /\ Holds(bucket, hist[1].key, hist[2].data)

\* C9: the size limit of upload_file_data is exactly 25 MiB.  A bytes-like
\* payload of at most 25*1024*1024 bytes is not stopped at the size test (no
\* ValueError, and the call goes on to the client).  A larger one raises
\* ValueError when skip_files_which_are_too_large is False and returns
\* normally when it is True; either way no client call is issued and the
\* bucket is unchanged.
C9_SizeLimit ==
    \A i \in 1..Len(hist) :
        LET h == hist[i] IN
        (h.op = "upload" /\ h.data.kind \in {"bytes", "BytesIO"}) =>
            /\ (h.data.size <= 25 * 1024 * 1024) =>
                   /\ h.raised # "ValueError"
                   /\ h.gc # "-" \/ h.answer # "-" \/ h.put # "-"
                   /\ (EnvSound(h) /\ h.overwrite) =>
                          Holds(After(i), h.key, h.data)
            /\ (h.data.size > 25 * 1024 * 1024) =>
                   /\ h.raised = (IF h.skip THEN "none" ELSE "ValueError")
                   /\ h.gc = "-" /\ h.answer = "-" /\ h.put = "-"
                   /\ (i = Len(hist) => calls = NoCalls)
                   /\ After(i) = h.before

C9_Witness ==
    /\ Len(hist) >= 2
    /\ hist[1].op = "upload" /\ hist[2].op = "upload"
    /\ hist[1].data.kind = "BytesIO" /\ hist[1].data.size = 25 * 1024 * 1024
    /\ hist[1].raised = "none" /\ Holds(hist[2].before, hist[1].key, hist[1].data)
    /\ hist[2].data.kind = "bytes" /\ hist[2].data.size = 25 * 1024 * 1024 + 1
    /\ hist[2].skip /\ hist[2].raised = "none"
    /\ calls = NoCalls /\ bucket = hist[2].before

\* C16: upload_file_data with overwrite=False writes only when the probe
\* said "no such key": for every other answer of the probe (status 200, no
\* status, another status, a null response) put_object is not issued and the
\* bucket is unchanged, and a response without a status makes the call
\* return without raising.
C16_PutOnlyWhenAbsent ==
    \A i \in 1..Len(hist) :
        (hist[i].op = "upload" /\ ~hist[i].overwrite
            /\ hist[i].answer \in {"s200", "noStatus", "sOther", "null"}) =>
            /\ hist[i].put = "-"
            /\ After(i) = hist[i].before
            /\ (hist[i].answer = "noStatus") => hist[i].raised = "none"

\* calls i and j of the run are overwrite=False uploads to one key whose
\* probes were both answered "no such key" and whose put_object calls the
\* store served, that of i first and no other write to the key in between
BothSawNoKey(i, j) ==
    /\ i < j
    /\ hist[i].op = "upload" /\ hist[j].op = "upload"
    /\ hist[i].key = hist[j].key
    /\ ~hist[i].overwrite /\ ~hist[j].overwrite
    /\ hist[i].answer = "NoSuchKey" /\ hist[j].answer = "NoSuchKey"
    /\ hist[i].put = "ok" /\ hist[j].put = "ok"
    /\ \A k \in (i + 1)..(j - 1) :
           hist[k].key # hist[i].key \/ hist[k].put # "ok"

\* C17: the probe and the write of upload_file_data(overwrite=False) are not
\* one step.  When two concurrent calls for the same key interleave so that
\* both probes are answered "no such key", both calls return without
\* FileExistsError, the earlier put_object writes its payload and the later
\* one replaces it.
C17_BothWriteLaterWins ==
    \A i, j \in 1..Len(hist) :
        BothSawNoKey(i, j) =>
            /\ hist[i].raised = "none" /\ hist[j].raised = "none"
            /\ Holds(hist[i].after, hist[i].key, hist[i].data)
            /\ Holds(hist[j].before, hist[i].key, hist[i].data)
            /\ Holds(hist[j].after, hist[j].key, hist[j].data)

C17_Witness ==
    /\ Len(hist) = 2
    /\ BothSawNoKey(1, 2)
    /\ hist[1].task # hist[2].task
    /\ hist[1].before = <<>>
    /\ hist[1].data.body # hist[2].data.body
    /\ Holds(hist[2].before, hist[1].key, hist[1].data)
    /\ Holds(bucket, hist[1].key, hist[2].data)

----------------------------------------------------------------------------
(* Properties of _get_content_type, delete_files_in_list and the local host *)

ImageExtensions ==
    { <<".", "p", "n", "g">>, <<".", "j", "p", "g">>, <<".", "j", "p", "e", "g">>,
      <<".", "w", "e", "b", "p">>, <<".", "b", "m", "p">>,
      <<".", "t", "i", "f", "f">>, <<".", "g", "i", "f">> }

\* C10: for a file name ending, case-insensitively, in a known image
\* extension _get_content_type returns an image/* type; for .mp4, .mp3, .wav
\* and .ogg it returns video/mp4, audio/mpeg, audio/wav and audio/ogg; for
\* every other name it returns the generic fallback.
C10_ContentTypeFollowsExtension ==
    (hist # <<>> /\ hist[1].op = "_get_content_type") =>
        LET name == lower(hist[1].filename)
            type == hist[1].content_type
        IN  IF \E ext \in ImageExtensions : endswith(name, ext)
            THEN Head(type) = "image/"
            ELSE IF endswith(name, <<".", "m", "p", "4">>) THEN type = <<"video/mp4">>
            ELSE IF endswith(name, <<".", "m", "p", "3">>) THEN type = <<"audio/mpeg">>
            ELSE IF endswith(name, <<".", "w", "a", "v">>) THEN type = <<"audio/wav">>
            ELSE IF endswith(name, <<".", "o", "g", "g">>) THEN type = <<"audio/ogg">>
            ELSE type = <<"html/text">>

\* the delete_objects calls of the last operation
DeleteCalls == SelectSeq(calls, LAMBDA c : c.op = "delete_objects")
RECURSIVE NamedCount(_, _)
NamedCount(cs, i) ==
    IF i > Len(cs) THEN 0 ELSE Len(cs[i].arg) + NamedCount(cs, i + 1)

\* C4: delete_files_in_list given n keys that all exist issues exactly
\* ceil(n / 1000) delete_objects calls, each naming at most 1000 keys, that
\* together name every supplied key exactly once, and afterwards none of the
\* n keys exists.
C4_BatchedDeleteCoversAllKeys ==
    (hist # <<>> /\ hist[1].op = "delete_files_in_list" /\ hist[1].existed) =>
        LET n == hist[1].n
            dels == DeleteCalls
        IN  /\ Len(dels) = (n + 999) \div 1000
            /\ \A i \in 1..Len(dels) : Len(dels[i].arg) <= 1000
            /\ NamedCount(dels, 1) = n
            /\ UNION { { dels[i].arg[j] : j \in 1..Len(dels[i].arg) } :
                       i \in 1..Len(dels) } = 1..n
            /\ (1..n) \cap DOMAIN bucket = {}

\* C5: on the local file host handler with a compression quality and an
\* image name, when the fetch or the transcoding fails process_asset returns
\* and the file base_path/<file name>, the one the rewritten url names,
\* exists and holds the original bytes.
C5_LocalFallbackSavesOriginal ==
    (hist # <<>> /\ hist[1].op = "process_asset" /\ hist[1].compressing
        /\ ~hist[1].transcoded) =>
        /\ hist[1].raised = "none"
        /\ attachments[hist[1].att].url = LocalFileUrl(hist[1].file_name)
        /\ hist[1].file_name \in DOMAIN files
        /\ files[hist[1].file_name] = [src |-> hist[1].att, enc |-> "raw"]

----------------------------------------------------------------------------
(* Properties of AsyncS3ClientManager *)

\* the environment of call h did what a working store does: __aenter__
\* returned the client, __aexit__ returned
Sound(h) == h.answer \in {"-", "client", "ok"}
SoundUpTo(i) == \A j \in 1..i : Sound(hist[j])

\* C11: in a sequence of get_client and close calls made one after the other
\* against a working store, at most one connection is open at any time;
\* get_client returns the open client when there is one and leaves everything
\* as it is, and otherwise opens one new connection and stores its client and
\* context; close tears the open connection down and resets _client and
\* _context; close with nothing open opens and closes nothing.
C11_SingleConnection ==
    /\ SoundUpTo(Len(hist)) => Cardinality(Open(contexts)) <= 1
    /\ \A i \in 1..Len(hist) :
        SoundUpTo(i) =>
          LET h == hist[i] IN
          /\ h.raised = "none"
          /\ Cardinality(Open(h.after.contexts)) <= 1
          /\ (i < Len(hist)) => hist[i + 1].before = h.after
          /\ (h.op = "get_client") =>
               /\ h.result # 0
               /\ h.result = h.after.client
               /\ h.result \in Open(h.after.contexts)
               /\ IF h.before.client # 0
                  THEN h.result = h.before.client /\ h.after = h.before
                  ELSE /\ Len(h.after.contexts) = Len(h.before.contexts) + 1
                       /\ h.result = Len(h.after.contexts)
                       /\ h.after.context = h.result
          /\ (h.op = "close") =>
               /\ h.after.client = 0
               /\ h.after.context = 0
               /\ Open(h.after.contexts) = {}
               /\ Len(h.after.contexts) = Len(h.before.contexts)
               /\ (h.before.context = 0) => h.after = h.before

C11_Witness ==
    /\ Len(hist) = 3
    /\ SoundUpTo(3)
    /\ hist[1].op = "get_client" /\ hist[1].answer = "client"
    /\ hist[2].op = "get_client" /\ hist[2].result = hist[1].result
    /\ hist[3].op = "close" /\ hist[3].answer = "ok"
    /\ contexts[1].closed /\ Len(contexts) = 1
    /\ _client = 0 /\ _context = 0

\* the three variables were all set when the class body ran
Configured ==
    /\ config.endpoint_url # "None"
    /\ config.aws_access_key_id # "None"
    /\ config.aws_secret_access_key # "None"

\* C12: get_client on the uninitialised class with the endpoint URL, the
\* access key id or the secret access key missing from the environment
\* raises, opens no connection and leaves _client and _context at None.
C12_MissingConfigFails ==
    \A i \in 1..Len(hist) :
        (hist[i].op = "get_client" /\ ~Configured
            /\ hist[i].before.client = 0 /\ hist[i].before.context = 0) =>
            /\ hist[i].raised # "none"
            /\ Open(hist[i].after.contexts) = {}
            /\ hist[i].after.client = 0
            /\ hist[i].after.context = 0

\* every call made so far was a get_client whose __aenter__, if awaited,
\* returned the client
OnlyGetClient ==
    \A i \in 1..Len(hist) : hist[i].op = "get_client" /\ Sound(hist[i])

\* C18: when several tasks call get_client on the uninitialised class and
\* interleave at the await of __aenter__, then once they have all returned
\* exactly one connection was created, every caller got the same client, and
\* every open connection is the one _context refers to.
C18_OneConnectionForAll ==
    (Running = {} /\ hist # <<>> /\ OnlyGetClient) =>
        /\ Len(contexts) = 1
        /\ \A i, j \in 1..Len(hist) : hist[i].result = hist[j].result
        /\ \A n \in Open(contexts) : n = _context

\* C19: under any interleaving of get_client and close calls, once all calls
\* have completed _client is set exactly when _context is set, and close
\* never begins __aexit__ on a context whose __aenter__ has not finished.
C19_ClientIffContext ==
    /\ (Running = {} /\ SoundUpTo(Len(hist))) =>
           ((_client # 0) <=> (_context # 0))
    /\ \A n \in DOMAIN contexts : ~contexts[n].early

----------------------------------------------------------------------------
(* Properties common to the handler variants *)

\* C13: a process_asset call that returns has rewritten url and proxy_url of
\* the attachment record it was given, so that the record no longer carries
\* its remote URL, and the record it returns is that same record.
C13_MutatesAndReturnsArgument ==
    (hist # <<>> /\ hist[1].op = "process_asset" /\ hist[1].raised = "none") =>
        LET a == hist[1].att IN
        /\ hist[1].result = Argument(a)
        /\ attachments[a].url # CdnUrl(attachments[a].filename)
        /\ attachments[a].proxy_url # CdnUrl(attachments[a].filename)
=============================================================================
